---- MODULE Spec2Model ----
(***************************************************************************)
(* New England Airports Data Explorer (src/neap_code.py).                  *)
(*                                                                         *)
(* The script reads a CSV file, cleans it (load_and_prepare_data) and      *)
(* runs one pass of the dashboard (run_airport_explorer): sidebar widgets, *)
(* filter, table and charts, map, histogram, summary statistics, pivot     *)
(* table.  Streamlit re-executes the whole script on every interaction     *)
(* of the user with a widget; the widgets keep their values between runs.  *)
(*                                                                         *)
(* Representation.                                                         *)
(*  - A DataFrame is a set of rows; a row is a record keyed by column      *)
(*    name, plus "index", the pandas row label given by read_csv.          *)
(*  - Numbers of feet are held in quarter feet (Feet(200) is 200 ft), so   *)
(*    that half feet in the file and the median of two such values are     *)
(*    exact.                                                               *)
(*  - NaN is the missing value of a numeric column, NaNObj the missing     *)
(*    value of a text column.  Comparisons with NaN are false, as in       *)
(*    Python.                                                              *)
(***************************************************************************)
EXTENDS Integers, FiniteSets, Sequences, TLC

\* Largest number of data lines in the input file.
MaxRows == 3

\* Largest number of interactions of the user with the sidebar.
MaxInteractions == 2

\* ------------------------------------------------------------------------
\* Values
\* ------------------------------------------------------------------------
NaN == -1000000
NaNObj == "<NaN>"

Feet(n) == n * 4

\* Python int(): truncation toward zero (the argument is not NaN).
int(x) == IF x >= 0 THEN (x \div 4) * 4 ELSE 0 - (((0 - x) \div 4) * 4)

\* ------------------------------------------------------------------------
\* The input file
\* ------------------------------------------------------------------------
\* Columns whose cells the program reads.
DataColumns ==
  {"id", "type", "iso_region", "municipality", "elevation_ft",
   "latitude_deg", "longitude_deg", "runway_length_ft"}

columns_to_drop == {"continent", "iata_code", "home_link", "keywords", "gps_code"}

new_england_states == {"US-MA", "US-CT", "US-RI", "US-NH", "US-VT", "US-ME"}

\* Text cells that pandas.read_csv turns into a missing value by default.
na_values == {"", "NA", "N/A", "NULL", "NaN", "nan", "null", "None", "n/a", "<NA>", "#N/A"}

\* Headers of the files considered: the full header, a file without the
\* optional runway column, and a file lacking one of the columns that
\* load_and_prepare_data drops.
Headers ==
  { DataColumns \cup columns_to_drop,
    (DataColumns \ {"runway_length_ft"}) \cup columns_to_drop,
    DataColumns \cup (columns_to_drop \ {"gps_code"}) }

\* The data lines a file is made of.  A numeric cell holds NaN when it is
\* empty in the file; a text cell holds the text of the file.
Lines ==
  { [index |-> 0, id |-> 10, type |-> "small_airport", iso_region |-> "US-MA",
     municipality |-> "Boston", elevation_ft |-> Feet(199) + 2,
     latitude_deg |-> 42, longitude_deg |-> -71, runway_length_ft |-> Feet(2000)],
    [index |-> 1, id |-> 11, type |-> "heliport", iso_region |-> "US-MA",
     municipality |-> "Boston", elevation_ft |-> Feet(200),
     latitude_deg |-> 42, longitude_deg |-> -71, runway_length_ft |-> NaN],
    [index |-> 2, id |-> 12, type |-> "small_airport", iso_region |-> "US-VT",
     municipality |-> "Stowe", elevation_ft |-> Feet(999) + 2,
     latitude_deg |-> NaN, longitude_deg |-> -72, runway_length_ft |-> Feet(3000)],
    [index |-> 3, id |-> 13, type |-> "heliport", iso_region |-> "US-VT",
     municipality |-> "Stowe", elevation_ft |-> Feet(1000),
     latitude_deg |-> 44, longitude_deg |-> -72, runway_length_ft |-> Feet(3000) + 2],
    [index |-> 4, id |-> 14, type |-> "small_airport", iso_region |-> "US-MA",
     municipality |-> "", elevation_ft |-> Feet(1500),
     latitude_deg |-> 42, longitude_deg |-> -71, runway_length_ft |-> Feet(2500)],
    [index |-> 5, id |-> 15, type |-> "small_airport", iso_region |-> "US-NY",
     municipality |-> "Albany", elevation_ft |-> Feet(100),
     latitude_deg |-> 42, longitude_deg |-> -73, runway_length_ft |-> Feet(4000)],
    [index |-> 6, id |-> 16, type |-> "closed", iso_region |-> "US-ME",
     municipality |-> "NA", elevation_ft |-> NaN,
     latitude_deg |-> 45, longitude_deg |-> -69, runway_length_ft |-> NaN],
    [index |-> 7, id |-> 17, type |-> "small_airport", iso_region |-> "US-MA",
     municipality |-> "Salem", elevation_ft |-> NaN,
     latitude_deg |-> 42, longitude_deg |-> NaN, runway_length_ft |-> Feet(2000)],
    [index |-> 8, id |-> NaN, type |-> "closed", iso_region |-> "US-NH",
     municipality |-> "Keene", elevation_ft |-> Feet(1200) + 2,
     latitude_deg |-> 43, longitude_deg |-> -72, runway_length_ft |-> Feet(1000)],
    [index |-> 9, id |-> 19, type |-> "", iso_region |-> "US-CT",
     municipality |-> "Groton", elevation_ft |-> 0 - 2,
     latitude_deg |-> 41, longitude_deg |-> -72, runway_length_ft |-> Feet(1500)] }

\* A row cut down to the columns of a header.
Project(r, cols) == [c \in (DOMAIN r) \cap (cols \cup {"index"}) |-> r[c]]

Files ==
  { [header |-> h, lines |-> {Project(l, h) : l \in L}] :
      h \in Headers, L \in {S \in SUBSET Lines : Cardinality(S) <= MaxRows} }

VARIABLES
  file,           \* the CSV file: header and data lines
  pc,             \* position of the script
  session,        \* values the widgets hold between runs (None before the first)
  interactions,   \* number of interactions so far
  data,           \* module-level `data`: the cleaned DataFrame
  criteria,       \* values returned by the sidebar widgets
  filtered_data,  \* local `filtered_data` of run_airport_explorer
  rendered,       \* what each section has put on the page so far
  errors          \* messages reported with st.error

vars == <<file, pc, session, interactions, data, criteria, filtered_data, rendered, errors>>

\* A DataFrame: its column names and its rows.
NoFrame == [columns |-> {}, rows |-> {}]

\* Columns of dtype object; the others are numeric.
TextColumns == {"type", "iso_region", "municipality", "elevation_category"}

\* Series.isna()
isna(c, v) == IF c \in TextColumns THEN v = NaNObj ELSE v = NaN

\* Python None and a present value.
None == <<>>
Some(v) == <<v>>

\* ------------------------------------------------------------------------
\* pandas helpers
\* ------------------------------------------------------------------------
\* pd.read_csv: text cells among na_values become missing.
ParseCell(c, v) ==
  IF c \in TextColumns
  THEN (IF v \in na_values THEN NaNObj ELSE v)
  ELSE v

read_csv(f) ==
  [columns |-> f.header,
   rows |-> {[c \in DOMAIN l |-> ParseCell(c, l[c])] : l \in f.lines}]

\* Series.isin(values): NaN matches NaN.
isin(v, values) == v \in values

\* between with the right end excluded.
between_exclusive(v, left, right) == v # NaN /\ left <= v /\ v < right

\* Series.between(left, right): inclusive on both sides, false for NaN.
between(v, left, right) == v # NaN /\ left <= v /\ v <= right

\* Series.unique()
unique(df, c) == {r[c] : r \in df.rows}

\* The non-missing values of a numeric column, ascending, with repetitions.
RECURSIVE SortedValues(_, _)
SortedValues(R, c) ==
  IF R = {} THEN <<>>
  ELSE LET m == CHOOSE r \in R : \A q \in R : r[c] <= q[c]
       IN <<m[c]>> \o SortedValues(R \ {m}, c)

NotNa(df, c) == {r \in df.rows : ~ isna(c, r[c])}

\* Series.median(): NaN are skipped; NaN when nothing is left.
median(df, c) ==
  LET s == SortedValues(NotNa(df, c), c)
      n == Len(s)
  IN IF n = 0 THEN NaN
     ELSE IF n % 2 = 1 THEN s[(n + 1) \div 2]
     ELSE (s[n \div 2] + s[(n \div 2) + 1]) \div 2

\* Series.min() and Series.max(): NaN are skipped; NaN when nothing is left.
min(df, c) ==
  LET s == SortedValues(NotNa(df, c), c) IN IF s = <<>> THEN NaN ELSE s[1]

max(df, c) ==
  LET s == SortedValues(NotNa(df, c), c) IN IF s = <<>> THEN NaN ELSE s[Len(s)]

RECURSIVE Sum(_)
Sum(s) == IF s = <<>> THEN 0 ELSE Head(s) + Sum(Tail(s))

\* Series.mean(): the fraction num/den over the non-missing values; 0/0 is
\* the NaN that pandas returns for an empty Series.
mean(df, c) ==
  LET s == SortedValues(NotNa(df, c), c) IN [num |-> Sum(s), den |-> Len(s)]

\* Series.value_counts().to_dict(): missing values are not counted.
value_counts(df, c) ==
  LET present == unique(df, c) \ {NaNObj}
  IN [v \in present |-> Cardinality({r \in df.rows : r[c] = v})]

\* DataFrame.dropna(subset=cols)
dropna(df, cols) ==
  [df EXCEPT !.rows =
     {r \in df.rows : \A c \in cols : ~ isna(c, r[c])}]

\* ------------------------------------------------------------------------
\* load_and_prepare_data
\* ------------------------------------------------------------------------
RegionFilter(df) ==
  [df EXCEPT !.rows = {r \in df.rows : isin(r.iso_region, new_england_states)}]

DropColumns(df) == [df EXCEPT !.columns = df.columns \ columns_to_drop]

\* fillna(median): only missing cells change.
FillElevation(df) ==
  LET m == median(df, "elevation_ft")
  IN [df EXCEPT !.rows =
        {[r EXCEPT !.elevation_ft = IF @ = NaN THEN m ELSE @] : r \in df.rows}]

\* Dropping on the empty text instead of on the missing value.
DropMunicipalityEmptyOnly(df) ==
  [df EXCEPT !.rows = {r \in df.rows : r.municipality # ""}]

DropMunicipality(df) == dropna(df, {"municipality"})

\* lambda x: 'Low' if x < 200 else 'Medium' if x < 1000 else 'High'
\* (a comparison with NaN is false).
elevation_category(x) ==
  IF x # NaN /\ x < Feet(200) THEN "Low"
  ELSE IF x # NaN /\ x < Feet(1000) THEN "Medium"
  ELSE "High"

AddCategory(df) ==
  [columns |-> df.columns \cup {"elevation_category"},
   rows |-> {[c \in (DOMAIN r) \cup {"elevation_category"} |->
                IF c = "elevation_category"
                THEN elevation_category(r.elevation_ft) ELSE r[c]] : r \in df.rows}]

\* Lines 46 and 47 exchanged: the median taken after the municipality drop.
load_and_prepare_data_swapped(f) ==
  AddCategory(FillElevation(DropMunicipality(DropColumns(RegionFilter(read_csv(f))))))

load_and_prepare_data(f) ==
  AddCategory(DropMunicipality(FillElevation(DropColumns(RegionFilter(read_csv(f))))))

\* ------------------------------------------------------------------------
\* analyze_airport_data
\* ------------------------------------------------------------------------
\* A mean computed as sum / len, which raises on an empty frame.
AnalysisRaisesOnEmpty(df) ==
  ~ ({"elevation_ft", "type"} \subseteq df.columns) \/ df.rows = {}

\* The statements of the try block raise KeyError when a column is missing.
AnalysisRaises(df) == ~ ({"elevation_ft", "type"} \subseteq df.columns)

analyze_airport_data(df) ==
  IF AnalysisRaises(df)
  THEN [total_airports |-> None, avg_elevation |-> None, airport_counts |-> <<>>]
  ELSE [total_airports |-> Some(Cardinality(df.rows)),
        avg_elevation |-> Some(mean(df, "elevation_ft")),
        airport_counts |-> value_counts(df, "type")]

\* ------------------------------------------------------------------------
\* run_airport_explorer
\* ------------------------------------------------------------------------
\* int(df[c].min()) and int(df[c].max()) raise ValueError on NaN.
SliderRaises(df, c) == min(df, c) = NaN

DefaultRange(df, c) == <<int(min(df, c)), int(max(df, c))>>

\* Positions a range slider can be left at: whole feet between its ends.
\* The positions considered are the ends and the whole feet at the values
\* of the column.
SliderStops(df, c) ==
  LET d == DefaultRange(df, c)
  IN {d[1], d[2]} \cup
     {p \in {int(r[c]) : r \in NotNa(df, c)} : d[1] <= p /\ p <= d[2]}

SliderValues(df, c) ==
  {<<lo, hi>> : lo \in SliderStops(df, c), hi \in SliderStops(df, c)} \cap
  {v \in SliderStops(df, c) \X SliderStops(df, c) : v[1] <= v[2]}

HasRunway(df) == "runway_length_ft" \in df.columns

DefaultCriteria(df) ==
  [selected_state |-> unique(df, "iso_region"),
   selected_type |-> unique(df, "type"),
   selected_elevation |-> unique(df, "elevation_category"),
   elevation_range |-> DefaultRange(df, "elevation_ft"),
   runway_range |-> IF HasRunway(df)
                    THEN Some(DefaultRange(df, "runway_length_ft")) ELSE None]

\* The records the widgets can hold after the user has set one of them,
\* starting from the record c.
WidgetValues(df, c) ==
  {[c EXCEPT !.selected_state = v] : v \in SUBSET unique(df, "iso_region")}
  \cup {[c EXCEPT !.selected_type = v] : v \in SUBSET unique(df, "type")}
  \cup {[c EXCEPT !.selected_elevation = v] : v \in SUBSET unique(df, "elevation_category")}
  \cup {[c EXCEPT !.elevation_range = v] : v \in SliderValues(df, "elevation_ft")}
  \cup {[c EXCEPT !.runway_range = v] :
          v \in IF HasRunway(df)
                THEN {Some(x) : x \in SliderValues(df, "runway_length_ft")}
                ELSE {None}}

\* Lines 105-110: the four criteria combined with &.
MainMask(r, c) ==
  /\ isin(r.iso_region, c.selected_state)
  /\ isin(r.type, c.selected_type)
  /\ isin(r.elevation_category, c.selected_elevation)
  /\ between(r.elevation_ft, c.elevation_range[1], c.elevation_range[2])

\* Lines 112-113: the runway criterion, applied to the result.
RunwayFilter(df, c) ==
  IF c.runway_range # None
  THEN [df EXCEPT !.rows =
          {r \in df.rows : between(r.runway_length_ft,
                                   c.runway_range[1][1], c.runway_range[1][2])}]
  ELSE df

ApplyFilter(df, c) ==
  RunwayFilter([df EXCEPT !.rows = {r \in df.rows : MainMask(r, c)}], c)

\* Lines 153-154: the rows kept for the map.
MapRows(df) ==
  IF df.rows # {} /\ {"latitude_deg", "longitude_deg"} \subseteq df.columns
  THEN dropna(df, {"latitude_deg", "longitude_deg"})
  ELSE df

\* pivot_table without fill_value: only the pairs that have rows get a cell.
pivot_table_nofill(df) ==
  LET R == {r \in df.rows : r.iso_region # NaNObj /\ r.type # NaNObj}
      pairs == {<<r.iso_region, r.type>> : r \in R}
  IN [index |-> {k[1] : k \in pairs}, columns |-> {k[2] : k \in pairs},
      cell |-> [k \in pairs |->
                  Cardinality({r \in R : /\ r.iso_region = k[1]
                                         /\ r.type = k[2]
                                         /\ r.id # NaN})]]

\* DataFrame.pivot_table(index='iso_region', columns='type', values='id',
\* aggfunc='count', fill_value=0): one line per region and one column per
\* type of the rows; a cell counts the rows with a non-missing id.
pivot_table(df) ==
  LET R == {r \in df.rows : r.iso_region # NaNObj /\ r.type # NaNObj}
      idx == {r.iso_region : r \in R}
      cols == {r.type : r \in R}
  IN [index |-> idx, columns |-> cols,
      cell |-> [k \in idx \X cols |->
                  Cardinality({r \in R : /\ r.iso_region = k[1]
                                         /\ r.type = k[2]
                                         /\ r.id # NaN})]]

Indexes(df) == {r.index : r \in df.rows}

Init ==
  /\ file \in Files
  /\ pc = "load"
  /\ session = None
  /\ interactions = 0
  /\ data = NoFrame
  /\ criteria = None
  /\ filtered_data = NoFrame
  /\ rendered = <<>>
  /\ errors = {}

\* Lines 229-230 (and 53-54, the same call on the same file).
Load ==
  /\ pc = "load"
  /\ columns_to_drop \subseteq file.header
  /\ data' = load_and_prepare_data(file)
  /\ pc' = "widgets"
  /\ UNCHANGED <<file, session, interactions, criteria, filtered_data, rendered, errors>>

\* df.drop raises KeyError when a listed column is not in the file.
LoadFails ==
  /\ pc = "load"
  /\ ~ (columns_to_drop \subseteq file.header)
  /\ pc' = "crashed"
  /\ UNCHANGED <<file, session, interactions, data, criteria, filtered_data, rendered, errors>>

\* Lines 70-102: the sidebar.  On the first run every widget returns its
\* default, afterwards the value it holds.
Widgets ==
  /\ pc = "widgets"
  /\ ~ SliderRaises(data, "elevation_ft")
  /\ HasRunway(data) => ~ SliderRaises(data, "runway_length_ft")
  /\ criteria' = IF session = None THEN Some(DefaultCriteria(data)) ELSE session
  /\ pc' = "filter"
  /\ UNCHANGED <<file, session, interactions, data, filtered_data, rendered, errors>>

WidgetsFail ==
  /\ pc = "widgets"
  /\ \/ SliderRaises(data, "elevation_ft")
     \/ HasRunway(data) /\ SliderRaises(data, "runway_length_ft")
  /\ pc' = "crashed"
  /\ UNCHANGED <<file, session, interactions, data, criteria, filtered_data, rendered, errors>>

\* Lines 104-113.
Filter ==
  /\ pc = "filter"
  /\ filtered_data' = ApplyFilter(data, criteria[1])
  /\ pc' = "display"
  /\ UNCHANGED <<file, session, interactions, data, criteria, rendered, errors>>

\* Lines 115-147: the data table, the type bar chart and the pie chart.
Display ==
  /\ pc = "display"
  /\ rendered' = [s \in {"table", "bar_chart"} |->
                    IF s = "table" THEN Indexes(filtered_data)
                    ELSE value_counts(filtered_data, "type")]
  /\ pc' = "map"
  /\ UNCHANGED <<file, session, interactions, data, criteria, filtered_data, errors>>

With(f, k, v) == [x \in (DOMAIN f) \cup {k} |-> IF x = k THEN v ELSE f[x]]

\* Lines 149-200.
Map ==
  /\ pc = "map"
  /\ filtered_data' = MapRows(filtered_data)
  /\ rendered' = With(rendered, "map", Indexes(filtered_data'))
  /\ pc' = "histogram"
  /\ UNCHANGED <<file, session, interactions, data, criteria, errors>>

\* Lines 202-212.
Histogram ==
  /\ pc = "histogram"
  /\ rendered' = With(rendered, "histogram",
                       {r.index : r \in NotNa(filtered_data, "elevation_ft")})
  /\ pc' = "summary"
  /\ UNCHANGED <<file, session, interactions, data, criteria, filtered_data, errors>>

\* Lines 214-220.  f"{avg_elevation:.2f}" raises TypeError on None.
Summary ==
  /\ pc = "summary"
  /\ LET res == analyze_airport_data(filtered_data)
     IN /\ errors' = IF AnalysisRaises(filtered_data)
                     THEN errors \cup {"Error during analysis"} ELSE errors
        /\ IF res.avg_elevation = None
           THEN /\ pc' = "crashed"
                /\ rendered' = With(rendered, "total", res.total_airports)
           ELSE /\ pc' = "pivot"
                /\ rendered' = With(rendered, "summary", res)
  /\ UNCHANGED <<file, session, interactions, data, criteria, filtered_data>>

\* Lines 222-226.
Pivot ==
  /\ pc = "pivot"
  /\ rendered' = With(rendered, "pivot_table", pivot_table(filtered_data))
  /\ pc' = "done"
  /\ UNCHANGED <<file, session, interactions, data, criteria, filtered_data, errors>>

\* The user sets one widget of the sidebar and Streamlit runs the script
\* again from the top.
Rerun ==
  /\ pc = "done"
  /\ interactions < MaxInteractions
  /\ interactions' = interactions + 1
  /\ session' \in {Some(c) : c \in WidgetValues(data, criteria[1])}
  /\ pc' = "load"
  /\ data' = NoFrame
  /\ criteria' = None
  /\ filtered_data' = NoFrame
  /\ rendered' = <<>>
  /\ errors' = {}
  /\ UNCHANGED file

\* ------------------------------------------------------------------------
\* analyze_airport_data and the code that follows its call, on any frame
\* ------------------------------------------------------------------------
\* In the script the frame handed to analyze_airport_data always has the
\* columns elevation_ft and type, so its except branch is never entered
\* there.  The function itself accepts any frame: here lines 214-226 start
\* from any frame made of cleaned rows, the two columns present or not.
CleanFrame ==
  load_and_prepare_data([header |-> DataColumns \cup columns_to_drop, lines |-> Lines])

Views ==
  { [columns |-> cs, rows |-> {Project(r, cs) : r \in R}] :
      cs \in {CleanFrame.columns, CleanFrame.columns \ {"type"},
              CleanFrame.columns \ {"elevation_ft"}},
      R \in {S \in SUBSET CleanFrame.rows : Cardinality(S) <= MaxRows} }

InitAnalysis ==
  /\ file = [header |-> {}, lines |-> {}]
  /\ pc = "summary"
  /\ session = None
  /\ interactions = 0
  /\ data = NoFrame
  /\ criteria = None
  /\ filtered_data \in Views
  /\ rendered = <<>>
  /\ errors = {}

NextAnalysis ==
  \/ Summary
  \/ Pivot

SpecAnalysis == InitAnalysis /\ [][NextAnalysis]_vars

Next ==
  \/ Load
  \/ LoadFails
  \/ Widgets
  \/ WidgetsFail
  \/ Filter
  \/ Display
  \/ Map
  \/ Histogram
  \/ Summary
  \/ Pivot
  \/ Rerun

Spec == Init /\ [][Next]_vars

\* ------------------------------------------------------------------------
\* Properties
\* ------------------------------------------------------------------------
\* load_and_prepare_data has returned.
Loaded == data.columns # {}

\* The line of the file a cleaned row comes from.
LineOf(r) == CHOOSE l \in file.lines : l.index = r.index

\* The lines of the file whose region is one of the six states.
RegionLines == {l \in file.lines : l.iso_region \in new_england_states}

\* The sidebar has been left untouched.
AtDefaults == criteria = Some(DefaultCriteria(data))

\* C1: with the default criteria the filtered view is the cleaned dataset,
\* no row lost and none gained.
C1_DefaultsSelectAll ==
  (pc = "display" /\ AtDefaults) => filtered_data.rows = data.rows

\* C2: every row of the cleaned dataset has an elevation_ft, also when
\* every elevation_ft of the region-filtered rows is missing.
C2_ElevationNeverMissing ==
  \A r \in data.rows : r.elevation_ft # NaN

\* C3: elevation_category is Low iff elevation_ft < 200, Medium iff
\* 200 <= elevation_ft < 1000, High iff elevation_ft >= 1000.
C3_CategoryMatchesThresholds ==
  \A r \in data.rows :
    LET e == r.elevation_ft
        known == e # NaN
    IN /\ r.elevation_category \in {"Low", "Medium", "High"}
       /\ r.elevation_category = "Low" <=> (known /\ e < Feet(200))
       /\ r.elevation_category = "Medium" <=> (known /\ Feet(200) <= e /\ e < Feet(1000))
       /\ r.elevation_category = "High" <=> (known /\ e >= Feet(1000))

\* C4: every cleaned row has one of the six regions and a municipality that
\* is neither missing nor empty, and every line of the file with one of the
\* six regions and a municipality that is given is kept.
C4_RegionAndMunicipality ==
  Loaded =>
    /\ \A r \in data.rows :
         /\ r.iso_region \in {"US-MA", "US-CT", "US-RI", "US-NH", "US-VT", "US-ME"}
         /\ r.municipality # NaNObj
         /\ r.municipality # ""
    /\ \A l \in file.lines :
         (/\ l.iso_region \in {"US-MA", "US-CT", "US-RI", "US-NH", "US-VT", "US-ME"}
          /\ l.municipality \notin na_values)
           => \E r \in data.rows : r.index = l.index

\* C4 witness: a file with a line that is kept, a line dropped for its
\* municipality and a line dropped for its region.
C4_Witness ==
  /\ Loaded
  /\ data.rows # {}
  /\ \E l \in RegionLines : l.municipality \in na_values
  /\ \E l \in file.lines : l.iso_region \notin new_england_states

\* m is the median of the elevations given on the lines L: as many values
\* on each side of it, the mean of the two middle values when their number
\* is even; missing when no elevation is given.
IsMedianOf(m, L) ==
  LET G == {l \in L : l.elevation_ft # NaN}
      n == Cardinality(G)
      Below(v) == Cardinality({l \in G : l.elevation_ft < v})
      Above(v) == Cardinality({l \in G : l.elevation_ft > v})
  IN IF n = 0 THEN m = NaN
     ELSE IF n % 2 = 1
     THEN \E l \in G : /\ m = l.elevation_ft
                       /\ 2 * Below(m) < n
                       /\ 2 * Above(m) < n
     ELSE \E a, b \in G :
            /\ 2 * Below(a.elevation_ft) < n /\ 2 * Above(a.elevation_ft) <= n
            /\ 2 * Below(b.elevation_ft) <= n /\ 2 * Above(b.elevation_ft) < n
            /\ 2 * m = a.elevation_ft + b.elevation_ft

\* The example of the claim: elevations 100, missing, 300, missing, 500.
ExampleFrame ==
  [columns |-> {"elevation_ft"},
   rows |-> {[index |-> 0, elevation_ft |-> Feet(100)],
             [index |-> 1, elevation_ft |-> NaN],
             [index |-> 2, elevation_ft |-> Feet(300)],
             [index |-> 3, elevation_ft |-> NaN],
             [index |-> 4, elevation_ft |-> Feet(500)]}]

ExampleFilled ==
  {[index |-> 0, elevation_ft |-> Feet(100)],
   [index |-> 1, elevation_ft |-> Feet(300)],
   [index |-> 2, elevation_ft |-> Feet(300)],
   [index |-> 3, elevation_ft |-> Feet(300)],
   [index |-> 4, elevation_ft |-> Feet(500)]}

\* C5: a missing elevation_ft becomes the median of the elevations given on
\* the lines that pass the region filter (lines of other regions left out,
\* lines dropped later for their municipality counted); an elevation_ft
\* that is given is kept.
C5_MedianImputation ==
  /\ Loaded =>
       \A r \in data.rows :
         IF LineOf(r).elevation_ft = NaN
         THEN IsMedianOf(r.elevation_ft, RegionLines)
         ELSE r.elevation_ft = LineOf(r).elevation_ft
  /\ FillElevation(ExampleFrame).rows = ExampleFilled

\* C5 witness: a kept row whose elevation was missing takes its value from
\* a line that is dropped for its municipality, while a line of another
\* region gives a different elevation.
C5_Witness ==
  /\ Loaded
  /\ \E r \in data.rows :
       /\ LineOf(r).elevation_ft = NaN
       /\ r.elevation_ft # NaN
       /\ \E l \in RegionLines : /\ l.municipality \in na_values
                                 /\ l.elevation_ft = r.elevation_ft
  /\ \E l \in file.lines \ RegionLines : l.elevation_ft # NaN

\* A row meets every criterion of c.
MeetsAll(r, c) ==
  /\ r.iso_region \in c.selected_state
  /\ r.type \in c.selected_type
  /\ r.elevation_category \in c.selected_elevation
  /\ r.elevation_ft # NaN
  /\ c.elevation_range[1] <= r.elevation_ft
  /\ r.elevation_ft <= c.elevation_range[2]
  /\ "runway_length_ft" \in data.columns =>
       /\ r.runway_length_ft # NaN
       /\ c.runway_range[1][1] <= r.runway_length_ft
       /\ r.runway_length_ft <= c.runway_range[1][2]

\* C6: the filtered view is the set of cleaned rows that meet all criteria
\* at once; the runway criterion taken first gives the same view; without
\* a runway column the runway criterion is ignored.
C6_FilterIsConjunction ==
  pc = "display" =>
    /\ filtered_data.columns = data.columns
    /\ filtered_data.rows = {r \in data.rows : MeetsAll(r, criteria[1])}
    /\ filtered_data.rows =
         {r \in RunwayFilter(data, criteria[1]).rows : MainMask(r, criteria[1])}
    /\ ~ HasRunway(data) =>
         filtered_data.rows = {r \in data.rows : MainMask(r, criteria[1])}

\* C6 witness: a view that keeps a row, loses one to the runway criterion
\* alone and one to the other criteria, with an elevation on the upper end
\* of the range.
C6_Witness ==
  /\ pc = "display"
  /\ HasRunway(data)
  /\ \E r \in filtered_data.rows : r.elevation_ft = criteria[1].elevation_range[2]
  /\ \E r \in data.rows \ filtered_data.rows : MainMask(r, criteria[1])
  /\ \E r \in data.rows : ~ MainMask(r, criteria[1])

\* C6 witness without a runway column.
C6_WitnessNoRunway ==
  /\ pc = "display"
  /\ ~ HasRunway(data)
  /\ filtered_data.rows # {}
  /\ filtered_data.rows # data.rows

\* The result of the except branch of analyze_airport_data.
Degenerate == [total_airports |-> None, avg_elevation |-> None, airport_counts |-> <<>>]

PivotRows == {r \in filtered_data.rows : r.type # NaNObj}

NaNMean == [num |-> 0, den |-> 0]

SomeDimensionEmpty ==
  \/ criteria[1].selected_state = {}
  \/ criteria[1].selected_type = {}
  \/ criteria[1].selected_elevation = {}

\* C9: with every value of one dimension deselected the filtered view is
\* empty, and on an empty view analyze_airport_data returns count 0, a NaN
\* mean and no type counts on its normal path, with no error reported.
C9_EmptyViewIsNormal ==
  /\ (pc = "display" /\ SomeDimensionEmpty) => filtered_data.rows = {}
  /\ ("histogram" \in DOMAIN rendered /\ pc # "summary" /\ filtered_data.rows = {}) =>
       /\ pc \in {"pivot", "done"}
       /\ errors = {}
       /\ rendered["summary"] =
            [total_airports |-> Some(0), avg_elevation |-> Some(NaNMean),
             airport_counts |-> <<>>]

\* C9 witness: all types deselected on a dataset that has rows, and the
\* summary of the empty view shown.
C9_Witness ==
  /\ pc = "done"
  /\ data.rows # {}
  /\ criteria[1].selected_type = {}
  /\ criteria[1].selected_state # {}
  /\ rendered["summary"].total_airports = Some(0)

\* C10: the histogram, the summary and the pivot table cover exactly the
\* rows shown in the data table and the bar chart.
C10_SameViewEverywhere ==
  pc = "done" =>
    /\ rendered["histogram"] = rendered["table"]
    /\ rendered["summary"].total_airports = Some(Cardinality(rendered["table"]))
    /\ rendered["summary"].airport_counts = rendered["bar_chart"]
    /\ Indexes(filtered_data) = rendered["table"]
====
